---- MODULE Spec2Model ----
(***************************************************************************)
(* QueryOptimizerStore (query_optimizer/store.py): a tree of stores that   *)
(* accumulates only_fields, related_fields, annotations and two ordered    *)
(* maps of child stores, compile() which flattens the tree into            *)
(* CompilationResults, and optimize_queryset() which applies the results   *)
(* to a queryset.  A queryset is modelled by the ordered log of the        *)
(* instructions it received.                                               *)
(***************************************************************************)
EXTENDS Integers, Sequences, FiniteSets, TLC

\* ---------------------------------------------------------------- bounds
\* SpecTree: stores built, and the size of the store forest (see Size)
MaxTreeStores == 4
MaxTreeSize == 5
\* SpecRun: the same for the tree that is optimized, and the number of
\* optimize_queryset calls on the root
MaxRunStores == 3
MaxRunSize == 5
MaxRuns == 2
\* SpecScore: stores of the tree whose complexity is read
MaxScoreStores == 4

\* ------------------------------------------------------------ input sets
Models == {"M1", "M2"}
Infos == {"i1", "i2"}
\* (model, info) of a new root store
Kinds == {<<"M1", "i1">>, <<"M2", "i2">>}
Names == {"a", "b"}
\* relation names of SpecScore
ScoreNames == {"a", "b", "c"}
Columns == {"x", "y"}
RelatedColumns == {"fk"}
AnnotationNames == {"n"}
Expressions == {"e1"}
PKs == {"pk1"}
None == "None"

\* django.db.models.constants.LOOKUP_SEP
LOOKUP_SEP == "__"

\* Models whose object type in the global registry has a callable
\* filter_queryset.
FilterHooks == {"M1"}

VARIABLES
    stores,           \* the stores created so far, addressed by their index
    disable_only,     \* optimizer_settings.DISABLE_ONLY_FIELDS_OPTIMIZATION
    runs,             \* number of optimize_queryset calls made on the root
    root,             \* store of the last optimize_queryset call (0: none)
    pk,               \* its pk argument
    input,            \* the queryset it was given
    results,          \* its local variable `results`
    queryset,         \* the queryset it produced (up to the raise, if any)
    raised,           \* whether it raised
    score             \* the value of the last read of store.complexity

buildvars == <<stores, disable_only>>
runvars == <<runs, root, pk, input, results, queryset, raised, score>>
vars == <<stores, disable_only, runs, root, pk, input, results, queryset, raised, score>>

\* ------------------------------------------------- python dict (ordered)
DictKeys(d) == {d[i].k : i \in DOMAIN d}

DictGet(d, k) == d[CHOOSE i \in DOMAIN d : d[i].k = k].v

\* d[k] = v
DictSet(d, k, v) ==
    IF k \in DictKeys(d)
    THEN [i \in DOMAIN d |-> IF d[i].k = k THEN [k |-> k, v |-> v] ELSE d[i]]
    ELSE Append(d, [k |-> k, v |-> v])

RECURSIVE DictUpdateFrom(_, _, _)
DictUpdateFrom(d, e, i) ==
    IF i > Len(e) THEN d
    ELSE DictUpdateFrom(DictSet(d, e[i].k, e[i].v), e, i + 1)

\* d.update(e)
DictUpdate(d, e) == DictUpdateFrom(d, e, 1)

Range(s) == {s[i] : i \in DOMAIN s}

\* ------------------------------------------------------------- querysets
NullOp(kind) ==
    [op |-> kind, args |-> <<>>, prefetches |-> <<>>, info |-> "",
     pk |-> None, annotations |-> <<>>]

Apply(qs, instruction) == [qs EXCEPT !.log = Append(@, instruction)]

\* model._default_manager.all()
get_prefetch_queryset(model) == [model |-> model, log |-> <<>>, optimized |-> FALSE]

NullQueryset == get_prefetch_queryset("")

filter_pk(qs, key) == Apply(qs, [NullOp("filter") EXCEPT !.pk = key])

filter_queryset(qs, info) == Apply(qs, [NullOp("filter_queryset") EXCEPT !.info = info])

prefetch_related(qs, prefetches) ==
    Apply(qs, [NullOp("prefetch_related") EXCEPT !.prefetches = prefetches])

select_related(qs, paths) == Apply(qs, [NullOp("select_related") EXCEPT !.args = paths])

only(qs, fields) == Apply(qs, [NullOp("only") EXCEPT !.args = fields])

annotate(qs, annotations) ==
    Apply(qs, [NullOp("annotate") EXCEPT !.annotations = annotations])

mark_optimized(qs) ==
    [Apply(qs, NullOp("mark_optimized")) EXCEPT !.optimized = TRUE]

Prefetch(name, qs) == [prefetch_to |-> name, queryset |-> qs]

\* faulty variant: the key of a follow-up found through a join is not prefixed
add_no_prefix(prefetch, prefix) == prefetch

\* Prefetch.add_prefix(prefix)
add_prefix(prefetch, prefix) ==
    [prefetch EXCEPT !.prefetch_to = prefix \o LOOKUP_SEP \o @]

\* faulty variant: the separator left out
QualifyUnseparated(name, item) == name \o item

\* f"{name}{LOOKUP_SEP}{item}"
Qualify(name, item) == name \o LOOKUP_SEP \o item

\* ---------------------------------------------------------------- stores
NewQueryOptimizerStore(model, info) ==
    [model |-> model, info |-> info, only_fields |-> <<>>,
     related_fields |-> <<>>, annotations |-> <<>>,
     select_stores |-> <<>>, prefetch_stores |-> <<>>]

CompilationResults(only_fields) ==
    [only_fields |-> only_fields, select_related |-> <<>>, prefetch_related |-> <<>>]

NoResults == CompilationResults(<<>>)

StoreIds == DOMAIN stores

Children(s) ==
    {stores[s].select_stores[i].v : i \in DOMAIN stores[s].select_stores}
    \cup {stores[s].prefetch_stores[i].v : i \in DOMAIN stores[s].prefetch_stores}

RECURSIVE ReachFrom(_, _)
ReachFrom(frontier, seen) ==
    IF frontier \subseteq seen THEN seen
    ELSE ReachFrom(UNION {Children(s) : s \in frontier}, seen \cup frontier)

\* s and every store below it
Reach(s) == ReachFrom({s}, {})

IsRoot(s) == \A p \in StoreIds : s \notin Children(p)

\* ------------------------------------------------------------ compilation
RECURSIVE compile(_), optimize_queryset(_, _, _, _)

\* compile_select(name, store, results): a true join
compile_select(name, store, res) ==
    LET nested_results == compile(store)
    IN  [only_fields |->
             res.only_fields \o
             [i \in DOMAIN nested_results.only_fields |->
                 Qualify(name, nested_results.only_fields[i])],
         select_related |->
             Append(res.select_related, name) \o
             [i \in DOMAIN nested_results.select_related |->
                 Qualify(name, nested_results.select_related[i])],
         prefetch_related |->
             res.prefetch_related \o
             [i \in DOMAIN nested_results.prefetch_related |->
                 add_prefix(nested_results.prefetch_related[i], name)]]

\* compile_prefetch(name, store, results): a follow-up query
compile_prefetch(name, store, res) ==
    LET qs == get_prefetch_queryset(stores[store].model)
        optimized_queryset == optimize_queryset(store, qs, None, "none").queryset
    IN  [res EXCEPT !.prefetch_related = Append(@, Prefetch(name, optimized_queryset))]

\* faulty variant: no promotion
NeverPromoted(store) == FALSE

\* Promote select related to prefetch related if any annotations are needed.
Promoted(store) == stores[store].annotations # <<>>

RECURSIVE compile_select_stores(_, _, _)
compile_select_stores(items, i, res) ==
    IF i > Len(items) THEN res
    ELSE compile_select_stores(items, i + 1,
             IF Promoted(items[i].v)
             THEN compile_prefetch(items[i].k, items[i].v, res)
             ELSE compile_select(items[i].k, items[i].v, res))

RECURSIVE compile_prefetch_stores(_, _, _)
compile_prefetch_stores(items, i, res) ==
    IF i > Len(items) THEN res
    ELSE compile_prefetch_stores(items, i + 1,
             compile_prefetch(items[i].k, items[i].v, res))

compile(s) ==
    LET initial == CompilationResults(stores[s].only_fields)
        selected == compile_select_stores(stores[s].select_stores, 1, initial)
    IN  compile_prefetch_stores(stores[s].prefetch_stores, 1, selected)

\* get_filtered_queryset(queryset): the hook of the queryset's model, if any
HasFilterHook(qs) == qs.model \in FilterHooks

\* faulty variant: the hook is not called
get_unfiltered_queryset(s, qs) == qs

get_filtered_queryset(s, qs) ==
    IF HasFilterHook(qs) THEN filter_queryset(qs, stores[s].info) ELSE qs

\* faulty variant: related_fields alone do not trigger only()
AppliesOnlyColumns(s, res) == ~disable_only /\ res.only_fields # <<>>

\* the condition of queryset.only(...)
AppliesOnly(s, res) ==
    ~disable_only /\ (res.only_fields # <<>> \/ stores[s].related_fields # <<>>)

\* the arguments of queryset.only(...)
OnlyArgs(s, res) == res.only_fields \o stores[s].related_fields

FailPoints ==
    {"none", "compile", "filter", "filter_queryset", "prefetch_related",
     "select_related", "only", "annotate"}

Raise(qs) == [queryset |-> qs, raised |-> TRUE]

\* faulty variant: joins and column restriction before the filter hook
apply_results_joins_first(s, qs, res, key, fail) ==
    LET q1 == IF key # None THEN filter_pk(qs, key) ELSE qs
        q2 == IF res.select_related # <<>>
              THEN select_related(q1, res.select_related) ELSE q1
        q3 == IF ~disable_only /\ (res.only_fields # <<>> \/ stores[s].related_fields # <<>>)
              THEN only(q2, res.only_fields \o stores[s].related_fields) ELSE q2
        q4 == IF q3.model \in FilterHooks THEN filter_queryset(q3, stores[s].info) ELSE q3
        q5 == IF res.prefetch_related # <<>>
              THEN prefetch_related(q4, res.prefetch_related) ELSE q4
        q6 == IF stores[s].annotations # <<>>
              THEN annotate(q5, stores[s].annotations) ELSE q5
    IN  IF fail # "none" THEN Raise(qs)
        ELSE [queryset |-> mark_optimized(q6), raised |-> FALSE]

\* optimize_queryset after `results = self.compile()`: the instructions in
\* the order of the code.  `fail` names the call that raises (an error of
\* the filter hook, the registry or the queryset), "none" if none does; the
\* result is the queryset reached and whether the call raised.
apply_results(s, qs, res, key, fail) ==
    LET q1 == IF key # None THEN filter_pk(qs, key) ELSE qs
        q2 == get_filtered_queryset(s, q1)
        q3 == IF res.prefetch_related # <<>>
              THEN prefetch_related(q2, res.prefetch_related) ELSE q2
        q4 == IF res.select_related # <<>>
              THEN select_related(q3, res.select_related) ELSE q3
        q5 == IF AppliesOnly(s, res) THEN only(q4, OnlyArgs(s, res)) ELSE q4
        q6 == IF stores[s].annotations # <<>>
              THEN annotate(q5, stores[s].annotations) ELSE q5
    IN  CASE fail = "filter" /\ key # None -> Raise(qs)
          [] fail = "filter_queryset" /\ HasFilterHook(q1) -> Raise(q1)
          [] fail = "prefetch_related" /\ res.prefetch_related # <<>> -> Raise(q2)
          [] fail = "select_related" /\ res.select_related # <<>> -> Raise(q3)
          [] fail = "only" /\ AppliesOnly(s, res) -> Raise(q4)
          [] fail = "annotate" /\ stores[s].annotations # <<>> -> Raise(q5)
          [] OTHER -> [queryset |-> mark_optimized(q6), raised |-> FALSE]

\* faulty variant: a queryset that is marked optimized is returned as it is
optimize_queryset_once(s, qs, key, fail) ==
    IF qs.optimized THEN [queryset |-> qs, raised |-> FALSE]
    ELSE IF fail = "compile" THEN Raise(qs)
    ELSE apply_results(s, qs, compile(s), key, fail)

\* optimize_queryset(queryset, pk=key)
optimize_queryset(s, qs, key, fail) ==
    IF fail = "compile" THEN Raise(qs)
    ELSE apply_results(s, qs, compile(s), key, fail)

\* faulty variant: the follow-up children are not descended into
RECURSIVE complexity_joins_only(_)
complexity_joins_only(s) ==
    LET RECURSIVE values(_, _, _)
        values(items, i, value) ==
            IF i > Len(items) THEN value
            ELSE values(items, i + 1, value + complexity_joins_only(items[i].v))
    IN  values(stores[s].select_stores, 1, 0)
        + Len(stores[s].select_stores) + Len(stores[s].prefetch_stores)

\* `value += store.complexity` for the stores of one bucket, in map order
RECURSIVE complexity(_), complexity_values(_, _, _)
complexity_values(items, i, value) ==
    IF i > Len(items) THEN value
    ELSE complexity_values(items, i + 1, value + complexity(items[i].v))

\* store.complexity
complexity(s) ==
    LET selected == complexity_values(stores[s].select_stores, 1, 0)
        value == complexity_values(stores[s].prefetch_stores, 1, selected)
    IN  value + Len(stores[s].select_stores) + Len(stores[s].prefetch_stores)

\* ---------------------------------------------------------------- actions
Init ==
    /\ stores = <<>>
    /\ disable_only \in BOOLEAN
    /\ runs = 0
    /\ root = 0
    /\ pk = None
    /\ input = NullQueryset
    /\ results = NoResults
    /\ queryset = NullQueryset
    /\ raised = FALSE
    /\ score = 0

\* stores are built and changed until the first compile / optimize_queryset
Building == runs = 0

\* QueryOptimizerStore(model, info)
NewStore(model, info) ==
    /\ Building
    /\ stores' = Append(stores, NewQueryOptimizerStore(model, info))
    /\ UNCHANGED <<disable_only, runvars>>

\* store.only_fields gets a column it does not hold yet
AddOnlyField(s, column) ==
    /\ Building
    /\ column \notin Range(stores[s].only_fields)
    /\ stores' = [stores EXCEPT ![s].only_fields = Append(@, column)]
    /\ UNCHANGED <<disable_only, runvars>>

\* store.related_fields gets a column it does not hold yet
AddRelatedField(s, column) ==
    /\ Building
    /\ column \notin Range(stores[s].related_fields)
    /\ stores' = [stores EXCEPT ![s].related_fields = Append(@, column)]
    /\ UNCHANGED <<disable_only, runvars>>

\* store.annotations[name] = expression
AddAnnotation(s, name, expression) ==
    /\ Building
    /\ stores' = [stores EXCEPT ![s].annotations = DictSet(@, name, expression)]
    /\ stores' # stores
    /\ UNCHANGED <<disable_only, runvars>>

InNeitherBucket(s, name) ==
    /\ name \notin DictKeys(stores[s].select_stores)
    /\ name \notin DictKeys(stores[s].prefetch_stores)

\* the model a relation of a model leads to
RelatedModel(model, name) ==
    IF name = "a" THEN CHOOSE m \in Models : m # model ELSE model

\* the child store the walker builds for a relation of store s: the related
\* model, the info of the request
NewChild(s, name) ==
    NewQueryOptimizerStore(RelatedModel(stores[s].model, name), stores[s].info)

\* a new child store enters store.select_stores under a relation name the
\* store has in neither bucket
InsertSelect(s, name) ==
    /\ Building
    /\ InNeitherBucket(s, name)
    /\ stores' = Append([stores EXCEPT ![s].select_stores =
                            DictSet(@, name, Len(stores) + 1)],
                        NewChild(s, name))
    /\ UNCHANGED <<disable_only, runvars>>

\* the same for store.prefetch_stores
InsertPrefetch(s, name) ==
    /\ Building
    /\ InNeitherBucket(s, name)
    /\ stores' = Append([stores EXCEPT ![s].prefetch_stores =
                            DictSet(@, name, Len(stores) + 1)],
                        NewChild(s, name))
    /\ UNCHANGED <<disable_only, runvars>>

\* self.__add__(other)
add(self, other) ==
    [self EXCEPT
        !.only_fields = @ \o other.only_fields,
        !.related_fields = @ \o other.related_fields,
        !.annotations = DictUpdate(@, other.annotations),
        !.select_stores = DictUpdate(@, other.select_stores),
        !.prefetch_stores = DictUpdate(@, other.prefetch_stores)]

\* a + b for two stores: the walker keeps the stores a tree, so b is a store
\* built apart from a (its twin), not a store above or below a
Merge(a, b) ==
    /\ Building
    /\ a # b
    /\ IsRoot(b)
    /\ a \notin Reach(b)
    /\ stores' = [stores EXCEPT ![a] = add(stores[a], stores[b])]
    /\ UNCHANGED <<disable_only, runvars>>

\* store.compile() on a root store
Compile(s) ==
    /\ Building
    /\ IsRoot(s)
    /\ results' = compile(s)
    /\ root' = s
    /\ runs' = runs + 1
    /\ UNCHANGED <<buildvars, pk, input, queryset, raised, score>>

\* a read of store.complexity
Complexity(s) ==
    /\ Building
    /\ score' = complexity(s)
    /\ root' = s
    /\ runs' = runs + 1
    /\ UNCHANGED <<buildvars, pk, input, results, queryset, raised>>

\* store.optimize_queryset(queryset, pk=key) on a root store: the first call
\* gets a fresh queryset of the store's model, a later one the queryset the
\* previous call returned
OptimizeQueryset(s, key, fail) ==
    /\ runs < MaxRuns
    /\ IsRoot(s)
    /\ runs > 0 => ~raised
    /\ LET qs == IF runs = 0 THEN get_prefetch_queryset(stores[s].model) ELSE queryset
           out == optimize_queryset(s, qs, key, fail)
       IN  /\ input' = qs
           /\ results' = IF fail = "compile" THEN NoResults ELSE compile(s)
           /\ queryset' = out.queryset
           /\ raised' = out.raised
    /\ runs' = runs + 1
    /\ root' = s
    /\ pk' = key
    /\ UNCHANGED <<buildvars, score>>

\* --------------------------------------------------------- specifications
RECURSIVE SizeFrom(_, _)
SizeFrom(ss, i) ==
    IF i > Len(ss) THEN 0
    ELSE 1 + Len(ss[i].only_fields) + Len(ss[i].related_fields)
           + Len(ss[i].annotations) + SizeFrom(ss, i + 1)

\* the stores plus the columns and annotations they hold
Size(ss) == SizeFrom(ss, 1)

TreeBudget == Len(stores') <= MaxTreeStores /\ Size(stores') <= MaxTreeSize

RunBudget == Len(stores') <= MaxRunStores /\ Size(stores') <= MaxRunSize

\* building a forest of stores, merging twins (stores of one model),
\* compiling a root
NextTree ==
    \/ \E k \in Kinds : NewStore(k[1], k[2]) /\ TreeBudget
    \/ \E s \in StoreIds, c \in Columns : AddOnlyField(s, c) /\ TreeBudget
    \/ \E s \in StoreIds, c \in RelatedColumns : AddRelatedField(s, c) /\ TreeBudget
    \/ \E s \in StoreIds, n \in AnnotationNames, e \in Expressions :
           AddAnnotation(s, n, e) /\ TreeBudget
    \/ \E s \in StoreIds, n \in Names : InsertSelect(s, n) /\ TreeBudget
    \/ \E s \in StoreIds, n \in Names : InsertPrefetch(s, n) /\ TreeBudget
    \/ \E a \in StoreIds, b \in StoreIds :
           stores[a].model = stores[b].model /\ Merge(a, b) /\ TreeBudget
    \/ \E s \in StoreIds : Compile(s)

InitTree == Init /\ ~disable_only

SpecTree == InitTree /\ [][NextTree]_vars

\* building one tree of stores, optimizing a queryset with its root
NextRun ==
    \/ \E k \in Kinds : stores = <<>> /\ NewStore(k[1], k[2]) /\ RunBudget
    \/ \E s \in StoreIds, c \in Columns : AddOnlyField(s, c) /\ RunBudget
    \/ \E s \in StoreIds, c \in RelatedColumns : AddRelatedField(s, c) /\ RunBudget
    \/ \E s \in StoreIds, n \in AnnotationNames, e \in Expressions :
           AddAnnotation(s, n, e) /\ RunBudget
    \/ \E s \in StoreIds, n \in Names : InsertSelect(s, n) /\ RunBudget
    \/ \E s \in StoreIds, n \in Names : InsertPrefetch(s, n) /\ RunBudget
    \/ \E s \in StoreIds, k \in PKs \cup {None}, f \in FailPoints :
           OptimizeQueryset(s, k, f)

SpecRun == Init /\ [][NextRun]_vars

\* building a forest of stores and merging any two of its trees, whatever
\* their models: __add__ has no precondition
NextMisuse ==
    \/ \E k \in Kinds : NewStore(k[1], k[2]) /\ TreeBudget
    \/ \E s \in StoreIds, c \in Columns : AddOnlyField(s, c) /\ TreeBudget
    \/ \E s \in StoreIds, c \in RelatedColumns : AddRelatedField(s, c) /\ TreeBudget
    \/ \E s \in StoreIds, n \in AnnotationNames, e \in Expressions :
           AddAnnotation(s, n, e) /\ TreeBudget
    \/ \E s \in StoreIds, n \in Names : InsertSelect(s, n) /\ TreeBudget
    \/ \E s \in StoreIds, n \in Names : InsertPrefetch(s, n) /\ TreeBudget
    \/ \E a \in StoreIds, b \in StoreIds : Merge(a, b) /\ TreeBudget

SpecMisuse == InitTree /\ [][NextMisuse]_vars

ScoreBudget == Len(stores') <= MaxScoreStores

\* building one tree of stores over three relation names, reading the
\* complexity of one of its stores
NextScore ==
    \/ \E k \in Kinds : stores = <<>> /\ NewStore(k[1], k[2]) /\ ScoreBudget
    \/ \E s \in StoreIds, n \in ScoreNames : InsertSelect(s, n) /\ ScoreBudget
    \/ \E s \in StoreIds, n \in ScoreNames : InsertPrefetch(s, n) /\ ScoreBudget
    \/ \E s \in StoreIds : Complexity(s)

SpecScore == InitTree /\ [][NextScore]_vars

\* ================================================================ claims
Annotated(s) == stores[s].annotations # <<>>

\* the relation keys of the follow-ups of a plan
PrefetchKeys(res) == {res.prefetch_related[i].prefetch_to : i \in DOMAIN res.prefetch_related}

\* the (relation name, child) entries of both buckets of store s
Entries(s) == Range(stores[s].select_stores) \cup Range(stores[s].prefetch_stores)

\* C1: for every child relation r of a compiled store whose child store has
\* annotations, in whichever bucket it is, the plan compile() returned has a
\* follow-up for r and does not have r among its join paths.
C1_Promotion ==
    runs > 0 =>
        \A e \in Entries(root) :
            Annotated(e.v) =>
                /\ e.k \in PrefetchKeys(results)
                /\ e.k \notin Range(results.select_related)

\* r1 + sep + ... + rk, the separator once between two levels
RECURSIVE JoinPath(_)
JoinPath(path) ==
    IF Len(path) = 1 THEN path[1]
    ELSE path[1] \o "__" \o JoinPath(Tail(path))

\* the store a chain of true joins leads to from s (0 if path is no such
\* chain: a name that is not in select_stores, or a child with annotations)
RECURSIVE Walk(_, _)
Walk(s, path) ==
    IF path = <<>> THEN s
    ELSE IF path[1] \notin DictKeys(stores[s].select_stores) THEN 0
    ELSE LET child == DictGet(stores[s].select_stores, path[1])
         IN  IF Annotated(child) THEN 0 ELSE Walk(child, Tail(path))

\* the chains of relation names as long as the stores allow
NamePaths == UNION {[1..k -> Names] : k \in 1..Len(stores)}

\* C2: for every chain of true joins s -> r1 -> ... -> rk whose last store
\* has the direct column x, s.compile() has the column
\* r1 + sep + ... + rk + sep + x and every prefix r1, ..., r1 + sep + ... + rk
\* among its join paths, the separator once per level.
C2_PathQualification ==
    \A s \in StoreIds : \A path \in NamePaths :
        Walk(s, path) # 0 =>
            /\ \A x \in Range(stores[Walk(s, path)].only_fields) :
                   JoinPath(Append(path, x)) \in Range(compile(s).only_fields)
            /\ \A k \in 1..Len(path) :
                   JoinPath(SubSeq(path, 1, k)) \in Range(compile(s).select_related)

\* C2 witness: a compiled root with a chain of two true joins to a store
\* with a column, which the plan holds qualified twice.
C2_Witness ==
    /\ runs > 0
    /\ \E path \in NamePaths :
           /\ Len(path) = 2
           /\ Walk(root, path) # 0
           /\ \E x \in Range(stores[Walk(root, path)].only_fields) :
                  path[1] \o "__" \o path[2] \o "__" \o x \in Range(results.only_fields)

\* seq without the later occurrences of its entries
RECURSIVE FirstSeen(_)
FirstSeen(seq) ==
    IF seq = <<>> THEN <<>>
    ELSE LET front == SubSeq(seq, 1, Len(seq) - 1)
         IN  IF seq[Len(seq)] \in Range(front) THEN FirstSeen(front)
             ELSE Append(FirstSeen(front), seq[Len(seq)])

\* C3: the columns compile() returned have no duplicate entry and are in
\* first-seen order, whatever tree of stores was compiled.
C3_ColumnsDeduplicated ==
    runs > 0 => results.only_fields = FirstSeen(results.only_fields)

\* what the child store c holds: columns, support columns, annotation names
\* and child relation names
Carried(ss, c) ==
    [only_fields |-> Range(ss[c].only_fields),
     related_fields |-> Range(ss[c].related_fields),
     annotations |-> DictKeys(ss[c].annotations),
     select_stores |-> DictKeys(ss[c].select_stores),
     prefetch_stores |-> DictKeys(ss[c].prefetch_stores)]

Carries(whole, part) ==
    /\ part.only_fields \subseteq whole.only_fields
    /\ part.related_fields \subseteq whole.related_fields
    /\ part.annotations \subseteq whole.annotations
    /\ part.select_stores \subseteq whole.select_stores
    /\ part.prefetch_stores \subseteq whole.prefetch_stores

\* after a + b, the child of a under every relation name that a and b had
\* in the same bucket carries what both children carried
MergedChildrenCarryBoth(a, b) ==
    /\ \A r \in DictKeys(stores[a].select_stores) \cap DictKeys(stores[b].select_stores) :
           LET merged == Carried(stores', DictGet(stores'[a].select_stores, r))
           IN  /\ Carries(merged, Carried(stores, DictGet(stores[a].select_stores, r)))
               /\ Carries(merged, Carried(stores, DictGet(stores[b].select_stores, r)))
    /\ \A r \in DictKeys(stores[a].prefetch_stores) \cap DictKeys(stores[b].prefetch_stores) :
           LET merged == Carried(stores', DictGet(stores'[a].prefetch_stores, r))
           IN  /\ Carries(merged, Carried(stores, DictGet(stores[a].prefetch_stores, r)))
               /\ Carries(merged, Carried(stores, DictGet(stores[b].prefetch_stores, r)))

\* C4: a merge a + b merges the child maps key-wise and recursively: for
\* every relation name in the same bucket of a and b, the child of the merged
\* store carries the columns, support columns, annotations and children of
\* both children.
C4_MergeIsRecursive ==
    [][\A a \in StoreIds, b \in StoreIds :
           Merge(a, b) => MergedChildrenCarryBoth(a, b)]_vars

\* C5: when a store is compiled, no relation name is in both of its buckets,
\* and the plan has no relation name both as a join path and as a follow-up.
C5_OneBucket ==
    runs > 0 =>
        /\ DictKeys(stores[root].select_stores)
               \cap DictKeys(stores[root].prefetch_stores) = {}
        /\ Range(results.select_related) \cap PrefetchKeys(results) = {}

\* ------------------------------------------------- claims on SpecRun
\* the instructions the last optimize_queryset call applied to its queryset
Applied == SubSeq(queryset.log, Len(input.log) + 1, Len(queryset.log))

RECURSIVE SumSeq(_)
SumSeq(seq) == IF seq = <<>> THEN 0 ELSE Head(seq) + SumSeq(Tail(seq))

\* the follow-up relations of the tree of s: the entries of follow-up
\* buckets and the join entries whose child has annotations, at any depth
RECURSIVE FollowUpCount(_)
FollowUpCount(s) ==
    SumSeq([i \in DOMAIN stores[s].select_stores |->
               (IF stores[stores[s].select_stores[i].v].annotations # <<>> THEN 1 ELSE 0)
               + FollowUpCount(stores[s].select_stores[i].v)])
    + SumSeq([i \in DOMAIN stores[s].prefetch_stores |->
               1 + FollowUpCount(stores[s].prefetch_stores[i].v)])

\* the follow-up querysets a log of instructions holds, at any depth
RECURSIVE CountQueries(_)
CountQueries(log) ==
    SumSeq([i \in DOMAIN log |->
        SumSeq([j \in DOMAIN log[i].prefetches |->
            1 + CountQueries(log[i].prefetches[j].queryset.log)])])

\* C6: the querysets built by an optimize_queryset call are 1 (the root)
\* plus the follow-up relations of the tree of stores: one queryset for each
\* follow-up relation, none for a true join.
C6_QueryCount ==
    (runs > 0 /\ ~raised) => 1 + CountQueries(Applied) = 1 + FollowUpCount(root)

\* C6 witness: a root with a true join and a follow-up relation below the
\* join, optimized into two querysets.
C6_Witness ==
    /\ runs > 0 /\ ~raised
    /\ results.select_related # <<>>
    /\ stores[root].prefetch_stores = <<>>
    /\ FollowUpCount(root) = 1
    /\ CountQueries(Applied) = 1

\* the follow-up relations of store s as compile() must emit them: key and
\* child store, those found through true joins with the path as prefix
RECURSIVE FollowUps(_), JoinFollowUps(_, _)
JoinFollowUps(items, i) ==
    IF i > Len(items) THEN <<>>
    ELSE (IF stores[items[i].v].annotations # <<>>
          THEN <<[key |-> items[i].k, store |-> items[i].v]>>
          ELSE [j \in DOMAIN FollowUps(items[i].v) |->
                   [key |-> items[i].k \o "__" \o FollowUps(items[i].v)[j].key,
                    store |-> FollowUps(items[i].v)[j].store]])
         \o JoinFollowUps(items, i + 1)

FollowUps(s) ==
    JoinFollowUps(stores[s].select_stores, 1)
    \o [j \in DOMAIN stores[s].prefetch_stores |->
           [key |-> stores[s].prefetch_stores[j].k, store |-> stores[s].prefetch_stores[j].v]]

Positions(log, kind) == {i \in DOMAIN log : log[i].op = kind}

\* the optimize_queryset calls behind a log of instructions: the call on
\* store s itself and the calls that made the querysets of its follow-ups
RECURSIVE Calls(_, _, _)
Calls(s, model, log) ==
    {[store |-> s, model |-> model, log |-> log, nested |-> FALSE]}
    \cup UNION {UNION {LET sub == Calls(FollowUps(s)[j].store,
                                       log[i].prefetches[j].queryset.model,
                                       log[i].prefetches[j].queryset.log)
                       IN  {[c EXCEPT !.nested = TRUE] : c \in sub}
                       : j \in DOMAIN log[i].prefetches \cap DOMAIN FollowUps(s)}
                : i \in DOMAIN log}

LastCalls == Calls(root, input.model, Applied)

\* the querysets attached to a log are those of the follow-up relations of
\* the store, in order, each of the model of its store
FollowUpsAttached(c) ==
    IF FollowUps(c.store) = <<>> THEN Positions(c.log, "prefetch_related") = {}
    ELSE /\ Cardinality(Positions(c.log, "prefetch_related")) = 1
         /\ \A i \in Positions(c.log, "prefetch_related") :
                /\ Len(c.log[i].prefetches) = Len(FollowUps(c.store))
                /\ \A j \in DOMAIN c.log[i].prefetches :
                       c.log[i].prefetches[j].queryset.model
                           = stores[FollowUps(c.store)[j].store].model

\* the filter hook ran once on the queryset, with the info of the store, if
\* the model has one, and not at all if it has none
FilteredOnce(c) ==
    IF c.model \in FilterHooks
    THEN /\ Cardinality(Positions(c.log, "filter_queryset")) = 1
         /\ \A i \in Positions(c.log, "filter_queryset") :
                c.log[i].info = stores[c.store].info
    ELSE Positions(c.log, "filter_queryset") = {}

\* C7: an optimize_queryset call applies the filter hook once to the
\* queryset of the root and once to the queryset of every follow-up
\* relation, at any depth, with the info of that relation's store, and the
\* queryset attached to the parent already holds it; a queryset whose model
\* has no hook gets no filter instruction.
C7_FilterHookOnce ==
    (runs > 0 /\ ~raised) =>
        \A c \in LastCalls : FollowUpsAttached(c) /\ FilteredOnce(c)

\* C7 witness: an optimized root whose follow-up queryset has a hook, and a
\* queryset (of the root or of a follow-up) of a model without one.
C7_Witness ==
    /\ runs > 0 /\ ~raised
    /\ \E c \in LastCalls : c.nested /\ c.model \in FilterHooks
    /\ \E c \in LastCalls : c.model \notin FilterHooks

\* C8 as claimed: optimize_queryset on a queryset that is marked optimized
\* returns the queryset it was given and applies nothing to it.
C8_NoOp ==
    (runs > 0 /\ input.optimized) => queryset = input

\* C8 amended: optimize_queryset does not read the mark: a call that does not
\* raise applies to a marked queryset the instructions it applies to a fresh
\* queryset of the same model, the mark among them.
C8_AppliedAgain ==
    (runs > 0 /\ input.optimized /\ ~raised) =>
        /\ Applied # <<>>
        /\ Applied = optimize_queryset(root, get_prefetch_queryset(input.model),
                                       pk, "none").queryset.log
        /\ queryset.optimized

\* C8 witness: a second call on the marked queryset applied three
\* instructions or more.
C8_Witness ==
    /\ runs > 1 /\ input.optimized /\ ~raised
    /\ Len(Applied) >= 3

\* C9: every optimize_queryset call (of the root and of the follow-ups)
\* applies only() if and only if the setting that disables it is off and the
\* plan has columns or the store has related_fields; only() never gets an
\* empty list, and it gets the plan's columns followed by the store's
\* related_fields.
C9_OnlyApplied ==
    (runs > 0 /\ ~raised) =>
        \A c \in LastCalls :
            LET plan == compile(c.store)
                support == stores[c.store].related_fields
            IN  /\ Cardinality(Positions(c.log, "only")) <= 1
                /\ Positions(c.log, "only") # {}
                       <=> (~disable_only /\ (plan.only_fields # <<>> \/ support # <<>>))
                /\ \A i \in Positions(c.log, "only") :
                       /\ c.log[i].args # <<>>
                       /\ c.log[i].args = plan.only_fields \o support

\* C9 witness: a root without columns of its own or of its joins, with a
\* related field, gets only() with that field; and a follow-up gets only().
C9_Witness ==
    /\ runs > 0 /\ ~raised
    /\ results.only_fields = <<>>
    /\ \E i \in Positions(Applied, "only") : Applied[i].args = stores[root].related_fields
    /\ \E c \in LastCalls : c.nested /\ Positions(c.log, "only") # {}

Rank(kind) ==
    CASE kind = "filter" -> 1
      [] kind = "filter_queryset" -> 2
      [] kind = "prefetch_related" -> 3
      [] kind = "select_related" -> 4
      [] kind = "only" -> 5
      [] kind = "annotate" -> 6
      [] kind = "mark_optimized" -> 7

InOrder(log) ==
    \A i \in DOMAIN log, j \in DOMAIN log : i < j => Rank(log[i].op) < Rank(log[j].op)

\* C10: every optimize_queryset call applies its instructions in the order
\* filter by pk (only if a pk is given), filter hook, follow-ups, joins,
\* only, annotate, mark; the mark is the last instruction of a call that
\* does not raise, and a call that raises applies no mark, so that a fresh
\* queryset stays unmarked.
C10_InstructionOrder ==
    runs > 0 =>
        /\ \A c \in LastCalls :
               /\ InOrder(c.log)
               /\ Positions(c.log, "filter") # {} => (~c.nested /\ pk # None)
               /\ (c.nested \/ ~raised) =>
                      /\ c.log # <<>>
                      /\ c.log[Len(c.log)].op = "mark_optimized"
                      /\ (~c.nested /\ pk # None) => Positions(c.log, "filter") # {}
        /\ raised =>
               /\ Positions(Applied, "mark_optimized") = {}
               /\ ~input.optimized => ~queryset.optimized

\* C10 witness: a call that applied all seven instructions.
C10_Witness ==
    /\ runs > 0 /\ ~raised
    /\ Len(Applied) = 7

\* C10 witness of the error case: a call that raised after the joins.
C10_RaisedWitness ==
    /\ runs > 0 /\ raised
    /\ Positions(Applied, "select_related") # {}

\* ------------------------------------------------- claims on SpecScore
\* the direct child relations of store s, join plus follow-up
DirectRelations(s) == Len(stores[s].select_stores) + Len(stores[s].prefetch_stores)

\* the relation edges of the subtree of s: (parent, bucket, relation name)
RelationEdges(s) ==
    UNION {{<<p, "select", k>> : k \in DictKeys(stores[p].select_stores)}
           \cup {<<p, "prefetch", k>> : k \in DictKeys(stores[p].prefetch_stores)}
           : p \in Reach(s)}

\* the scores of the children of s, bucket after bucket
ChildScores(s) ==
    [i \in DOMAIN stores[s].select_stores |-> complexity(stores[s].select_stores[i].v)]
    \o [i \in DOMAIN stores[s].prefetch_stores |->
            complexity(stores[s].prefetch_stores[i].v)]

\* two join children and one follow-up child, all of them leaves
TwoJoinsOneFollowUp(s) ==
    /\ Len(stores[s].select_stores) = 2
    /\ Len(stores[s].prefetch_stores) = 1
    /\ \A c \in Children(s) : Children(c) = {}

\* C11: the complexity read from a store is the number of its direct child
\* relations plus the sum of the scores of its children, which is the number
\* of relation edges of its subtree; two join children and one follow-up
\* child that are leaves score 3.
C11_ComplexityScore ==
    runs > 0 =>
        /\ score = DirectRelations(root) + SumSeq(ChildScores(root))
        /\ score = Cardinality(RelationEdges(root))
        /\ TwoJoinsOneFollowUp(root) => score = 3

\* C11 witness: the complexity of a store with two join children and one
\* follow-up child, all leaves, was read as 3.
C11_Witness ==
    /\ runs > 0
    /\ TwoJoinsOneFollowUp(root)
    /\ score = 3

\* C11 witness of a deeper tree: a child with a score of its own.
C11_DeepWitness ==
    /\ runs > 0
    /\ \E c \in Children(root) : complexity(c) > 0
    /\ score = 3

\* ------------------------------------- claims on SpecTree: follow-up keys
\* the follow-up relations of store t itself, in the order of compile():
\* the join entries whose child has annotations, then the follow-up entries
RECURSIVE PromotedNames(_, _)
PromotedNames(items, i) ==
    IF i > Len(items) THEN <<>>
    ELSE (IF Annotated(items[i].v) THEN <<items[i].k>> ELSE <<>>)
         \o PromotedNames(items, i + 1)

FollowUpNames(t) ==
    PromotedNames(stores[t].select_stores, 1)
    \o [j \in DOMAIN stores[t].prefetch_stores |-> stores[t].prefetch_stores[j].k]

Occurrences(seq, x) == Cardinality({i \in DOMAIN seq : seq[i] = x})

\* the keys of the follow-ups of a plan, in order
PrefetchKeySeq(res) ==
    [j \in DOMAIN res.prefetch_related |-> res.prefetch_related[j].prefetch_to]

\* the keys of the follow-up relations of s as the claim orders them
FollowUpKeySeq(s) == [j \in DOMAIN FollowUps(s) |-> FollowUps(s)[j].key]

C13_DeepWitness ==
    /\ runs > 0
    /\ \E path \in NamePaths :
           /\ Len(path) = 2
           /\ Walk(root, path) # 0
           /\ \E f \in Range(FollowUpNames(Walk(root, path))) :
                  PrefetchKeySeq(results) = <<path[1] \o "__" \o path[2] \o "__" \o f>>

\* --------------------------------- claims on SpecRun: support columns
\* C14: the only() instruction an optimize_queryset call applies holds, for
\* every store reached from the root by a chain of true joins r1, ..., rk,
\* the related_fields of that store qualified with the path,
\* r1 + sep + ... + rk + sep + s, besides its direct columns.
C14_SupportColumnsOfJoins ==
    (runs > 0 /\ ~raised) =>
        \A i \in Positions(Applied, "only") : \A path \in NamePaths :
            Walk(root, path) # 0 =>
                /\ \A x \in Range(stores[Walk(root, path)].only_fields) :
                       JoinPath(Append(path, x)) \in Range(Applied[i].args)
                /\ \A c \in Range(stores[Walk(root, path)].related_fields) :
                       JoinPath(Append(path, c)) \in Range(Applied[i].args)

\* ------------------------------------------------- claims on SpecMisuse
\* C12: a merge a + b of two stores of different models is signalled as a
\* fault and does not complete: the step raises and leaves a holding what it
\* held, none of the columns, annotations or children of b.
C12_MergeTypeFault ==
    [][\A a \in StoreIds, b \in StoreIds :
           (stores[a].model # stores[b].model /\ Merge(a, b)) =>
               (raised' /\ stores'[a] = stores[a])]_vars

====
